---------------------------- MODULE Spec2Model ----------------------------
(***************************************************************************)
(* NASALPROM PROM Copier: the clinician and patient pages of the three     *)
(* source files (src/unnamed/part_000, src/app.js, src/unnamed/part_001).  *)
(*                                                                         *)
(* Text is modelled as a sequence of string tokens.  A JavaScript template *)
(* literal or string concatenation is the concatenation of token           *)
(* sequences, Array.join(sep) puts the separator token between the         *)
(* elements, String(n) is the one-token text of n's decimal numeral.  The  *)
(* separators "\t", "\n", "-", "/" are tokens of their own, so the fields  *)
(* of a TSV row and the lines of a narrative can be recovered by splitting *)
(* at them.  Characters outside ASCII are written (U+xxxx) inside the      *)
(* literals: (U+2013) is the en dash, (U+2019) the right single quote.     *)
(***************************************************************************)
EXTENDS Integers, Sequences, FiniteSets, TLC

(***************************************************************************)
(* Bounds of the model.                                                    *)
(***************************************************************************)
\* user events (clicks, edits) per behaviour
MaxActions == 3
\* radios the user clicks one by one are those of the first ClickItems items
ClickItems == 1
\* clipboard writes whose promise has not settled yet
MaxPending == 1

(***************************************************************************)
(* Program constants.                                                      *)
(***************************************************************************)
\* JavaScript null: an unanswered slot of getScores
null == -1
\* a null score array (noseNums: null); a complete array is never empty
nullNums == << >>
\* the empty string
EMPTY == << >>

NOSE_ITEMS ==
  << "Nasal congestion",
     "Nasal obstruction",
     "Trouble breathing through nose",
     "Trouble sleeping",
     "Unable to get enough air through nose during exercise" >>

SNOT_ITEMS ==
  << "Need to blow nose",
     "Sneezing",
     "Runny nose",
     "Nasal obstruction",
     "Loss of smell or taste",
     "Cough",
     "Post-nasal discharge",
     "Thick nasal discharge",
     "Ear fullness",
     "Dizziness",
     "Ear pain",
     "Facial pain/pressure",
     "Difficulty falling asleep",
     "Waking up at night",
     "Lack of a good night(U+2019)s sleep",
     "Waking up tired",
     "Fatigue",
     "Reduced productivity",
     "Reduced concentration",
     "Frustrated/restless/irritable",
     "Sad",
     "Embarrassed" >>

\* addQuestions("noseQs", NOSE_ITEMS, "nose_", 4, onChange)
NOSE_MAX == 4
\* addQuestions("snotQs", SNOT_ITEMS, "snot_", 5, onChange)
SNOT_MAX == 5

\* the three source files
PART_000 == "part_000"
APP_JS == "app.js"
PART_001 == "part_001"

TAB == "\t"
NL == "\n"

(***************************************************************************)
(* Text helpers: the JavaScript built-ins the code uses.                   *)
(***************************************************************************)
\* String(n)
String(n) == << ToString(n) >>

\* arr.map(String)
mapString(arr) == [i \in 1..Len(arr) |-> String(arr[i])]

RECURSIVE join(_, _)
\* parts.join(sep), parts a sequence of texts
join(parts, sep) ==
  IF Len(parts) = 0 THEN << >>
  ELSE IF Len(parts) = 1 THEN parts[1]
  ELSE parts[1] \o << sep >> \o join(Tail(parts), sep)

\* text.split(sep): the texts between the separator tokens
split(text, sep) ==
  LET at == { i \in 1..Len(text) : text[i] = sep }
      n == Cardinality(at)
      cut(k) == IF k = 0 THEN 0
                ELSE IF k = n + 1 THEN Len(text) + 1
                ELSE CHOOSE p \in at : Cardinality({ q \in at : q < p }) = k - 1
  IN  [k \in 1..(n + 1) |-> SubSeq(text, cut(k - 1) + 1, cut(k) - 1)]

RECURSIVE sum(_)
\* function sum(arr) { return arr.reduce((a, b) => a + b, 0); }
sum(arr) == IF Len(arr) = 0 THEN 0 ELSE arr[1] + sum(Tail(arr))

\* function ddmmyyyy(iso)
ddmmyyyy(iso) ==
  IF iso = EMPTY THEN EMPTY
  ELSE LET p == split(iso, "-")
       IN  IF Len(p) < 3 \/ p[1] = EMPTY \/ p[2] = EMPTY \/ p[3] = EMPTY THEN iso
           ELSE p[3] \o << "/" >> \o p[2] \o << "/" >> \o p[1]

\* function todayIso(): the clock's date as YYYY-MM-DD
todayIso == << "2024", "-", "03", "-", "05" >>

\* encodeURIComponent(text), token by token: the separators become their
\* percent escapes, every other token is marked as escaped
encodeURIComponent(text) ==
  [i \in 1..Len(text) |->
     IF text[i] = NL THEN "%0A"
     ELSE IF text[i] = TAB THEN "%09"
     ELSE IF text[i] = "/" THEN "%2F"
     ELSE "enc(" \o text[i] \o ")"]

(***************************************************************************)
(* Completion state and validation.                                        *)
(***************************************************************************)
\* scores.filter(v => v !== null)
RECURSIVE answeredOf(_)
answeredOf(scores) ==
  IF Len(scores) = 0 THEN << >>
  ELSE (IF scores[1] # null THEN << scores[1] >> ELSE << >>) \o answeredOf(Tail(scores))

\* completionState with the complete test off by one
completionState_offByOne(scores) ==
  LET answered == Len(answeredOf(scores))
  IN  IF answered = 0 THEN "empty"
      ELSE IF answered >= Len(scores) - 1 THEN "complete"
      ELSE "partial"

\* function completionState(scores)
completionState(scores) ==
  LET answered == Len(answeredOf(scores))
  IN  IF answered = 0 THEN "empty"
      ELSE IF answered = Len(scores) THEN "complete"
      ELSE "partial"

\* the message of the Error assertNotPartialOrThrow throws
partlyCompleted(label) ==
  << label, " is partly completed. Please answer all questions in ", label,
     ", or clear it and leave it blank." >>

\* assertNotPartialOrThrow with the NOSE label written into the message
assertNotPartialOrThrow_fixedLabel(label, scores) ==
  LET st == completionState(scores)
  IN  IF st = "partial"
      THEN [threw |-> TRUE, message |-> partlyCompleted("NOSE"), st |-> "none"]
      ELSE [threw |-> FALSE, message |-> EMPTY, st |-> st]

\* function assertNotPartialOrThrow(label, scores): a throw is the record
\* with threw = TRUE and the Error's message, a return the record with the state
assertNotPartialOrThrow(label, scores) ==
  LET st == completionState(scores)
  IN  IF st = "partial"
      THEN [threw |-> TRUE, message |-> partlyCompleted(label), st |-> "none"]
      ELSE [threw |-> FALSE, message |-> EMPTY, st |-> st]

\* function scoresToNumbers(scores): Number(null) is 0
scoresToNumbers(scores) ==
  [i \in 1..Len(scores) |-> IF scores[i] = null THEN 0 ELSE scores[i]]

(***************************************************************************)
(* TSV builders.                                                           *)
(***************************************************************************)
\* buildFullBlockTSV without the NOSE total column
buildFullBlockTSV_noNoseTotal(noseNums, snotNums) ==
  LET cols == mapString(noseNums)
              \o mapString(snotNums) \o << String(sum(snotNums)) >>
  IN  join(cols, TAB)

\* function buildFullBlockTSV(noseNums, snotNums)
buildFullBlockTSV(noseNums, snotNums) ==
  LET cols == mapString(noseNums) \o << String(sum(noseNums)) >>
              \o mapString(snotNums) \o << String(sum(snotNums)) >>
  IN  join(cols, TAB)

\* function buildNoseOnlyTSV(noseNums)
buildNoseOnlyTSV(noseNums) ==
  LET cols == mapString(noseNums) \o << String(sum(noseNums)) >>
  IN  join(cols, TAB)

\* buildSnotOnlyTSV with every column followed by a tab
buildSnotOnlyTSV_trailingTab(snotNums) ==
  LET cols == mapString(snotNums) \o << String(sum(snotNums)) >>
  IN  join(cols, TAB) \o << TAB >>

\* function buildSnotOnlyTSV(snotNums)
buildSnotOnlyTSV(snotNums) ==
  LET cols == mapString(snotNums) \o << String(sum(snotNums)) >>
  IN  join(cols, TAB)

\* part_001: function buildBlockTSV(noseScores, snotScores)
buildBlockTSV(noseScores, snotScores) ==
  LET cols == mapString(noseScores) \o << String(sum(noseScores)) >>
              \o mapString(snotScores) \o << String(sum(snotScores)) >>
  IN  join(cols, TAB)

(***************************************************************************)
(* Narrative (EPR) text.                                                   *)
(***************************************************************************)
\* items.forEach((t, i) => lines.push(`- ${t}: ${nums[i]}`))
itemLines(items, nums) ==
  [i \in 1..Len(items) |-> << "- ", items[i], ": " >> \o String(nums[i])]

\* the meta array with the timepoint pushed before the date
metaParts_timepointFirst(dateIso, timepoint, blockLabel) ==
  (IF timepoint # EMPTY THEN << << "Timepoint: " >> \o timepoint >> ELSE << >>)
  \o (IF dateIso # EMPTY THEN << << "Date: " >> \o ddmmyyyy(dateIso) >> ELSE << >>)
  \o (IF blockLabel # EMPTY THEN << << "Dataset: " >> \o blockLabel >> ELSE << >>)

\* the meta array of buildEprText; part_001 has no blockLabel
metaParts(dateIso, timepoint, blockLabel) ==
  (IF dateIso # EMPTY THEN << << "Date: " >> \o ddmmyyyy(dateIso) >> ELSE << >>)
  \o (IF timepoint # EMPTY THEN << << "Timepoint: " >> \o timepoint >> ELSE << >>)
  \o (IF blockLabel # EMPTY THEN << << "Dataset: " >> \o blockLabel >> ELSE << >>)

\* lines.push("PROMs recorded:"); if (meta.length) lines.push(meta.join(" | ")); lines.push("")
headLines(meta) ==
  << << "PROMs recorded:" >> >>
  \o (IF Len(meta) # 0 THEN << join(meta, " | ") >> ELSE << >>)
  \o << EMPTY >>

\* the NOSE block with the scaled score computed as raw * 25
noseBlock_scaledBy25(b, noseNumsOrNull) ==
  IF noseNumsOrNull = nullNums THEN << >>
  ELSE LET noseRaw == sum(noseNumsOrNull)
           noseScaled == noseRaw * 25
       IN  (IF b = PART_000
            THEN << << "NOSE raw total: " >> \o String(noseRaw) \o << " / 20" >>,
                    << "NOSE score (0(U+2013)100): " >> \o String(noseScaled) \o << " / 100" >> >>
            ELSE << << "NOSE total: " >> \o String(noseRaw) \o << " / 20" >> >>)
           \o itemLines(NOSE_ITEMS, noseNumsOrNull)
           \o << EMPTY >>

\* the NOSE block: part_000 prints the raw total and the scaled score,
\* app.js the total only
noseBlock(b, noseNumsOrNull) ==
  IF noseNumsOrNull = nullNums THEN << >>
  ELSE LET noseRaw == sum(noseNumsOrNull)
           noseScaled == noseRaw * 5
       IN  (IF b = PART_000
            THEN << << "NOSE raw total: " >> \o String(noseRaw) \o << " / 20" >>,
                    << "NOSE score (0(U+2013)100): " >> \o String(noseScaled) \o << " / 100" >> >>
            ELSE << << "NOSE total: " >> \o String(noseRaw) \o << " / 20" >> >>)
           \o itemLines(NOSE_ITEMS, noseNumsOrNull)
           \o << EMPTY >>

\* the SNOT-22 block
snotBlock(snotNumsOrNull) ==
  IF snotNumsOrNull = nullNums THEN << >>
  ELSE << << "SNOT-22 total: " >> \o String(sum(snotNumsOrNull)) \o << " / 110" >> >>
       \o itemLines(SNOT_ITEMS, snotNumsOrNull)
       \o << EMPTY >>

RECURSIVE popBlank(_)
\* while (lines.length && lines[lines.length - 1] === "") lines.pop();
popBlank(lines) ==
  IF Len(lines) # 0 /\ lines[Len(lines)] = EMPTY
  THEN popBlank(SubSeq(lines, 1, Len(lines) - 1))
  ELSE lines

\* part_000, app.js: function buildEprText(dateIso, timepoint, blockLabel, noseNumsOrNull, snotNumsOrNull)
buildEprText(b, dateIso, timepoint, blockLabel, noseNumsOrNull, snotNumsOrNull) ==
  LET lines == headLines(metaParts(dateIso, timepoint, blockLabel))
               \o noseBlock(b, noseNumsOrNull)
               \o snotBlock(snotNumsOrNull)
  IN  join(popBlank(lines), NL)

\* part_001: function buildEprText(dateIso, timepoint, noseScores, snotScores)
buildEprText_001(dateIso, timepoint, noseScores, snotScores) ==
  LET lines == headLines(metaParts(dateIso, timepoint, EMPTY))
               \o << << "NOSE total: " >> \o String(sum(noseScores)) \o << " / 20" >> >>
               \o itemLines(NOSE_ITEMS, noseScores)
               \o << EMPTY >>
               \o << << "SNOT-22 total: " >> \o String(sum(snotScores)) \o << " / 110" >> >>
               \o itemLines(SNOT_ITEMS, snotScores)
  IN  join(lines, NL)

(***************************************************************************)
(* Smart TSV and the patient message.                                      *)
(***************************************************************************)
\* a thrown Error with its message
Throw(msg) ==
  [threw |-> TRUE, message |-> msg, mode |-> "none", tsv |-> EMPTY,
   noseNums |-> nullNums, snotNums |-> nullNums]

\* buildSmartTSV validating SNOT-22 before NOSE
buildSmartTSV_snotFirst(noseScores, snotScores) ==
  LET s == assertNotPartialOrThrow("SNOT-22", snotScores)
      n == assertNotPartialOrThrow("NOSE", noseScores)
  IN  IF s.threw THEN Throw(s.message)
      ELSE IF n.threw THEN Throw(n.message)
      ELSE IF n.st = "empty" /\ s.st = "empty"
      THEN Throw(<< "Please complete NOSE and/or SNOT-22 before copying." >>)
      ELSE IF n.st = "complete" /\ s.st = "complete"
      THEN LET noseNums == scoresToNumbers(noseScores)
               snotNums == scoresToNumbers(snotScores)
           IN  [threw |-> FALSE, message |-> EMPTY, mode |-> "full",
                tsv |-> buildFullBlockTSV(noseNums, snotNums),
                noseNums |-> noseNums, snotNums |-> snotNums]
      ELSE IF n.st = "complete"
      THEN LET noseNums == scoresToNumbers(noseScores)
           IN  [threw |-> FALSE, message |-> EMPTY, mode |-> "nose",
                tsv |-> buildNoseOnlyTSV(noseNums),
                noseNums |-> noseNums, snotNums |-> nullNums]
      ELSE LET snotNums == scoresToNumbers(snotScores)
           IN  [threw |-> FALSE, message |-> EMPTY, mode |-> "snot",
                tsv |-> buildSnotOnlyTSV(snotNums),
                noseNums |-> nullNums, snotNums |-> snotNums]

\* buildSmartTSV with the single-questionnaire branches exchanged
buildSmartTSV_swapped(noseScores, snotScores) ==
  LET n == assertNotPartialOrThrow("NOSE", noseScores)
      s == assertNotPartialOrThrow("SNOT-22", snotScores)
  IN  IF n.threw THEN Throw(n.message)
      ELSE IF s.threw THEN Throw(s.message)
      ELSE IF n.st = "empty" /\ s.st = "empty"
      THEN Throw(<< "Please complete NOSE and/or SNOT-22 before copying." >>)
      ELSE IF n.st = "complete" /\ s.st = "complete"
      THEN LET noseNums == scoresToNumbers(noseScores)
               snotNums == scoresToNumbers(snotScores)
           IN  [threw |-> FALSE, message |-> EMPTY, mode |-> "full",
                tsv |-> buildFullBlockTSV(noseNums, snotNums),
                noseNums |-> noseNums, snotNums |-> snotNums]
      ELSE IF s.st = "complete"
      THEN LET noseNums == scoresToNumbers(noseScores)
           IN  [threw |-> FALSE, message |-> EMPTY, mode |-> "nose",
                tsv |-> buildNoseOnlyTSV(noseNums),
                noseNums |-> noseNums, snotNums |-> nullNums]
      ELSE LET snotNums == scoresToNumbers(snotScores)
           IN  [threw |-> FALSE, message |-> EMPTY, mode |-> "snot",
                tsv |-> buildSnotOnlyTSV(snotNums),
                noseNums |-> nullNums, snotNums |-> snotNums]

\* buildSmartTSV that refuses unless both questionnaires are complete
buildSmartTSV_needsBoth(noseScores, snotScores) ==
  LET n == assertNotPartialOrThrow("NOSE", noseScores)
      s == assertNotPartialOrThrow("SNOT-22", snotScores)
  IN  IF n.threw THEN Throw(n.message)
      ELSE IF s.threw THEN Throw(s.message)
      ELSE IF n.st = "empty" \/ s.st = "empty"
      THEN Throw(<< "Please complete NOSE and/or SNOT-22 before copying." >>)
      ELSE LET noseNums == scoresToNumbers(noseScores)
               snotNums == scoresToNumbers(snotScores)
           IN  [threw |-> FALSE, message |-> EMPTY, mode |-> "full",
                tsv |-> buildFullBlockTSV(noseNums, snotNums),
                noseNums |-> noseNums, snotNums |-> snotNums]

\* function buildSmartTSV(noseScores, snotScores)
buildSmartTSV(noseScores, snotScores) ==
  LET n == assertNotPartialOrThrow("NOSE", noseScores)
      s == assertNotPartialOrThrow("SNOT-22", snotScores)
  IN  IF n.threw THEN Throw(n.message)
      ELSE IF s.threw THEN Throw(s.message)
      ELSE IF n.st = "empty" /\ s.st = "empty"
      THEN Throw(<< "Please complete NOSE and/or SNOT-22 before copying." >>)
      ELSE IF n.st = "complete" /\ s.st = "complete"
      THEN LET noseNums == scoresToNumbers(noseScores)
               snotNums == scoresToNumbers(snotScores)
           IN  [threw |-> FALSE, message |-> EMPTY, mode |-> "full",
                tsv |-> buildFullBlockTSV(noseNums, snotNums),
                noseNums |-> noseNums, snotNums |-> snotNums]
      ELSE IF n.st = "complete"
      THEN LET noseNums == scoresToNumbers(noseScores)
           IN  [threw |-> FALSE, message |-> EMPTY, mode |-> "nose",
                tsv |-> buildNoseOnlyTSV(noseNums),
                noseNums |-> noseNums, snotNums |-> nullNums]
      ELSE LET snotNums == scoresToNumbers(snotScores)
           IN  [threw |-> FALSE, message |-> EMPTY, mode |-> "snot",
                tsv |-> buildSnotOnlyTSV(snotNums),
                noseNums |-> nullNums, snotNums |-> snotNums]

\* the labels of the TSV block in the patient text
tsvLabel(b, mode) ==
  IF b = PART_000
  THEN (IF mode = "full" THEN "FULL TSV:"
        ELSE IF mode = "nose" THEN "NOSE TSV only:"
        ELSE "SNOT-22 TSV only:")
  ELSE (IF mode = "full" THEN "FULL TSV (paste into first PROM cell of block):"
        ELSE IF mode = "nose" THEN "NOSE TSV only (paste into first NOSE cell of block):"
        ELSE "SNOT-22 TSV only (paste into first SNOT-22 cell of block):")

\* tsvBits that pads a SNOT-22-only row to a full row with zeros for NOSE
tsvBits_paddedSnot(b, noseNums, snotNums) ==
  IF noseNums # nullNums /\ snotNums # nullNums
  THEN << tsvLabel(b, "full"), NL >> \o buildFullBlockTSV(noseNums, snotNums)
  ELSE IF noseNums # nullNums
  THEN << tsvLabel(b, "nose"), NL >> \o buildNoseOnlyTSV(noseNums)
  ELSE IF snotNums # nullNums
  THEN << tsvLabel(b, "snot"), NL >>
       \o buildFullBlockTSV([i \in 1..Len(NOSE_ITEMS) |-> 0], snotNums)
  ELSE EMPTY

\* the tsvBits array of mountPatient, joined with "\n\n"
tsvBits(b, noseNums, snotNums) ==
  IF noseNums # nullNums /\ snotNums # nullNums
  THEN << tsvLabel(b, "full"), NL >> \o buildFullBlockTSV(noseNums, snotNums)
  ELSE IF noseNums # nullNums
  THEN << tsvLabel(b, "nose"), NL >> \o buildNoseOnlyTSV(noseNums)
  ELSE IF snotNums # nullNums
  THEN << tsvLabel(b, "snot"), NL >> \o buildSnotOnlyTSV(snotNums)
  ELSE EMPTY

\* the subject with the date pushed even when it is empty
subjectOf_dangling(dateIso, timepoint) ==
  join(<< << "NASALPROM PROMs" >>, ddmmyyyy(dateIso) >>
       \o (IF timepoint # EMPTY THEN << timepoint >> ELSE << >>),
       " (U+2013) ")

\* const subject = subjectParts.join(" (U+2013) ")
subjectOf(dateIso, timepoint) ==
  join(<< << "NASALPROM PROMs" >> >>
       \o (IF dateIso # EMPTY THEN << ddmmyyyy(dateIso) >> ELSE << >>)
       \o (IF timepoint # EMPTY THEN << timepoint >> ELSE << >>),
       " (U+2013) ")

\* a thrown Error of buildPatientMessageOrThrow
ThrowMsg(msg) == [threw |-> TRUE, message |-> msg, subject |-> EMPTY, body |-> EMPTY]

\* buildPatientMessageOrThrow without the both-empty check
buildPatientMessageOrThrow_noEmptyCheck(b, incl, dateIso, timepoint, noseScores, snotScores) ==
  LET n == assertNotPartialOrThrow("NOSE", noseScores)
      s == assertNotPartialOrThrow("SNOT-22", snotScores)
  IN  IF n.threw THEN ThrowMsg(n.message)
      ELSE IF s.threw THEN ThrowMsg(s.message)
      ELSE LET noseNums == IF n.st = "complete" THEN scoresToNumbers(noseScores) ELSE nullNums
               snotNums == IF s.st = "complete" THEN scoresToNumbers(snotScores) ELSE nullNums
               readable == buildEprText(b, dateIso, timepoint, EMPTY, noseNums, snotNums)
           IN  [threw |-> FALSE, message |-> EMPTY,
                subject |-> subjectOf(dateIso, timepoint),
                body |-> readable \o << NL >>]

\* part_000, app.js: function buildPatientMessageOrThrow()
buildPatientMessageOrThrow(b, incl, dateIso, timepoint, noseScores, snotScores) ==
  LET n == assertNotPartialOrThrow("NOSE", noseScores)
      s == assertNotPartialOrThrow("SNOT-22", snotScores)
  IN  IF n.threw THEN ThrowMsg(n.message)
      ELSE IF s.threw THEN ThrowMsg(s.message)
      ELSE IF n.st = "empty" /\ s.st = "empty"
      THEN ThrowMsg(<< "Please complete NOSE and/or SNOT-22 before emailing results." >>)
      ELSE LET noseNums == IF n.st = "complete" THEN scoresToNumbers(noseScores) ELSE nullNums
               snotNums == IF s.st = "complete" THEN scoresToNumbers(snotScores) ELSE nullNums
               readable == buildEprText(b, dateIso, timepoint, EMPTY, noseNums, snotNums)
               subject == subjectOf(dateIso, timepoint)
           IN  IF ~incl
               THEN [threw |-> FALSE, message |-> EMPTY, subject |-> subject,
                     body |-> readable \o << NL >>]
               ELSE [threw |-> FALSE, message |-> EMPTY, subject |-> subject,
                     body |-> readable \o << NL, NL >> \o tsvBits(b, noseNums, snotNums)
                              \o << NL >>]

\* part_001: function buildEmail()
buildEmail(incl, dateIso, timepoint, nose0, snot0) ==
  LET readable == buildEprText_001(dateIso, timepoint, nose0, snot0)
      tsv == buildBlockTSV(nose0, snot0)
  IN  [threw |-> FALSE, message |-> EMPTY, subject |-> subjectOf(dateIso, timepoint),
       body |-> IF incl
                THEN readable \o << NL, NL, "TSV (for admin paste):", NL >> \o tsv \o << NL >>
                ELSE readable \o << NL >>]

(***************************************************************************)
(* The page: DOM state, output artifacts and the handlers.                 *)
(***************************************************************************)
VARIABLES
  build,          \* the source file the page loads
  page,           \* "clinician" (mountClinician) or "patient" (mountPatient)
  includeTsvLine, \* config.includeTsvLine !== false
  hasPreview,     \* the page has the #preview text area
  nose,           \* the checked radio of each NOSE item, null if none
  snot,           \* the checked radio of each SNOT-22 item, null if none
  date,           \* #date / #p_date
  timepoint,      \* #timepoint / #p_timepoint
  block,          \* #block
  noseTotal,      \* #noseTotal textContent
  snotTotal,      \* #snotTotal textContent
  preview,        \* #preview value
  clipboard,      \* the system clipboard
  href,           \* window.location.href once a mailto link was opened
  notice,         \* the message of the last alert()
  pending,        \* clipboard writes whose promise has not settled
  steps,          \* number of user events so far
  last            \* the last handler that ran and how it ended

vars ==
  << build, page, includeTsvLine, hasPreview, nose, snot, date, timepoint, block,
     noseTotal, snotTotal, preview, clipboard, href, notice, pending, steps, last >>

config == << build, page, includeTsvLine, hasPreview >>
answers == << nose, snot >>
meta == << date, timepoint, block >>
totals == << noseTotal, snotTotal >>
artifacts == << preview, clipboard, href, pending >>

\* config.emailTo || "nasalprom@yourorganisation.example"
emailTo == << "nasalprom@yourorganisation.example" >>

\* values of the #timepoint select
TIMEPOINTS == { EMPTY, << "Pre-op" >> }
\* values of the date input
DATES == { EMPTY, todayIso }
\* values of the #block select
BLOCKS == { "baseline", "followup" }

\* function getScores(prefix, count): part_001 reads an unanswered item as 0
getScores(b, radios) ==
  IF b = PART_001
  THEN [i \in 1..Len(radios) |-> IF radios[i] = null THEN 0 ELSE radios[i]]
  ELSE radios

\* the total text summing every slot, an unanswered one as its null value
totalText_countsNull(b, radios) ==
  String(sum(getScores(b, radios)))

\* the text onChange puts in #noseTotal / #snotTotal
totalText(b, radios) ==
  IF b = PART_001 THEN String(sum(getScores(b, radios)))
  ELSE String(sum(answeredOf(getScores(b, radios))))

\* mountClinician: the value onChange gives #preview
clinicianPreview(b, ns, sn) ==
  IF b = PART_001 THEN buildBlockTSV(getScores(b, ns), getScores(b, sn))
  ELSE LET r == buildSmartTSV(getScores(b, ns), getScores(b, sn))
       IN  IF r.threw THEN r.message ELSE r.tsv

\* mountPatient: the value onChange gives #preview
patientPreview(b, incl, ns, sn, d, tp) ==
  IF b = PART_001
  THEN LET txt == buildEprText_001(d, tp, getScores(b, ns), getScores(b, sn))
       IN  IF incl
           THEN txt \o << NL, NL, "TSV (for admin paste):", NL >>
                \o buildBlockTSV(getScores(b, ns), getScores(b, sn))
           ELSE txt
  ELSE LET n == assertNotPartialOrThrow("NOSE", ns)
           s == assertNotPartialOrThrow("SNOT-22", sn)
       IN  IF n.threw THEN n.message
           ELSE IF s.threw THEN s.message
           ELSE LET noseNums == IF n.st = "complete" THEN scoresToNumbers(ns) ELSE nullNums
                    snotNums == IF s.st = "complete" THEN scoresToNumbers(sn) ELSE nullNums
                    readable == buildEprText(b, d, tp, EMPTY, noseNums, snotNums)
                IN  IF noseNums = nullNums /\ snotNums = nullNums
                    THEN << "Complete NOSE and/or SNOT-22, then tap Email results." >>
                    ELSE IF ~incl THEN readable
                    ELSE readable \o << NL, NL >> \o tsvBits(b, noseNums, snotNums)

\* the value onChange gives #preview on either page
previewOf(b, pg, incl, ns, sn, d, tp) ==
  IF pg = "clinician" THEN clinicianPreview(b, ns, sn)
  ELSE patientPreview(b, incl, ns, sn, d, tp)

\* const onChange = () => { ... } run on the new DOM state
onChange(ns, sn, d, tp) ==
  /\ noseTotal' = totalText(build, ns)
  /\ snotTotal' = totalText(build, sn)
  /\ preview' = IF hasPreview
                THEN previewOf(build, page, includeTsvLine, ns, sn, d, tp)
                ELSE preview

\* the radios of a questionnaire with none checked
unchecked(items) == [i \in 1..Len(items) |-> null]

\* a completed questionnaire the page starts from: the radio values in turn
ramp(items, max) == [i \in 1..Len(items) |-> (i - 1) % (max + 1)]

\* the answers the page starts from: none given, or all given
StartAnswers(items, max) == { unchecked(items), ramp(items, max) }

\* what a handler records: the completion states it ran on and its outcome
Ran(op, outcome) ==
  [op |-> op, outcome |-> outcome,
   noseState |-> completionState(nose), snotState |-> completionState(snot)]

\* The page after mount with the answers given so far: every radio change
\* has run onChange, nothing was copied or mailed yet.
InitOf(builds) ==
  /\ build \in builds
  /\ page \in { "clinician", "patient" }
  /\ includeTsvLine \in (IF page = "patient" THEN BOOLEAN ELSE { TRUE })
  /\ hasPreview = TRUE
  /\ nose \in StartAnswers(NOSE_ITEMS, NOSE_MAX)
  /\ snot \in StartAnswers(SNOT_ITEMS, SNOT_MAX)
  /\ date = (IF build = PART_001 /\ page = "clinician" THEN EMPTY ELSE todayIso)
  /\ timepoint = << "Pre-op" >>
  /\ block = "baseline"
  /\ noseTotal = totalText(build, nose)
  /\ snotTotal = totalText(build, snot)
  /\ preview = previewOf(build, page, includeTsvLine, nose, snot, date, timepoint)
  /\ clipboard = EMPTY
  /\ href = EMPTY
  /\ notice = EMPTY
  /\ pending = << >>
  /\ steps = 0
  /\ last = [op |-> "mount", outcome |-> "ok",
             noseState |-> completionState(nose), snotState |-> completionState(snot)]

Init == InitOf({ PART_000, APP_JS })

InitAll == InitOf({ PART_000, APP_JS, PART_001 })

\* a user event is counted
Tick == steps < MaxActions /\ steps' = steps + 1

\* a NOSE radio change that leaves only the clicked item answered
AnswerNose_onlyClicked ==
  \E i \in 1..ClickItems, v \in { 0, NOSE_MAX } :
    /\ Tick
    /\ nose[i] # v
    /\ nose' = [unchecked(NOSE_ITEMS) EXCEPT ![i] = v]
    /\ onChange(nose', snot, date, timepoint)
    /\ last' = Ran("answer", "ok")
    /\ UNCHANGED << config, snot, meta, clipboard, href, notice, pending >>

\* makeRadioRow: the change listener of a NOSE radio
AnswerNose ==
  \E i \in 1..ClickItems, v \in { 0, NOSE_MAX } :
    /\ Tick
    /\ nose[i] # v
    /\ nose' = [nose EXCEPT ![i] = v]
    /\ onChange(nose', snot, date, timepoint)
    /\ last' = Ran("answer", "ok")
    /\ UNCHANGED << config, snot, meta, clipboard, href, notice, pending >>

\* makeRadioRow: the change listener of a SNOT-22 radio
AnswerSnot ==
  \E i \in 1..ClickItems, v \in { 0, SNOT_MAX } :
    /\ Tick
    /\ snot[i] # v
    /\ snot' = [snot EXCEPT ![i] = v]
    /\ onChange(nose, snot', date, timepoint)
    /\ last' = Ran("answer", "ok")
    /\ UNCHANGED << config, nose, meta, clipboard, href, notice, pending >>

\* the change/input listeners bindUpdate adds: part_000 only
Bound(ns, sn, d, tp) ==
  IF build = PART_000 THEN onChange(ns, sn, d, tp)
  ELSE UNCHANGED << totals, preview >>

\* the user edits the date
SetDate ==
  \E d \in DATES :
    /\ Tick
    /\ d # date
    /\ date' = d
    /\ Bound(nose, snot, d, timepoint)
    /\ last' = Ran("setDate", "ok")
    /\ UNCHANGED << config, answers, timepoint, block, clipboard, href, notice, pending >>

\* the user picks a timepoint
SetTimepoint ==
  \E tp \in TIMEPOINTS :
    /\ Tick
    /\ tp # timepoint
    /\ timepoint' = tp
    /\ Bound(nose, snot, date, tp)
    /\ last' = Ran("setTimepoint", "ok")
    /\ UNCHANGED << config, answers, date, block, clipboard, href, notice, pending >>

\* the user picks a dataset block (clinician page)
SetBlock ==
  \E bl \in BLOCKS :
    /\ Tick
    /\ page = "clinician"
    /\ bl # block
    /\ block' = bl
    /\ Bound(nose, snot, date, timepoint)
    /\ last' = Ran("setBlock", "ok")
    /\ UNCHANGED << config, answers, date, timepoint, clipboard, href, notice, pending >>

\* resetNoseBtn click unchecking every radio of the page
ResetNose_all ==
  /\ Tick
  /\ build = PART_000
  /\ nose' = unchecked(NOSE_ITEMS)
  /\ snot' = unchecked(SNOT_ITEMS)
  /\ onChange(nose', snot', date, timepoint)
  /\ last' = Ran("resetNose", "ok")
  /\ UNCHANGED << config, meta, clipboard, href, notice, pending >>

\* resetNoseBtn click: resetRadiosByPrefix("nose_", NOSE_ITEMS.length); onChange()
ResetNose ==
  /\ Tick
  /\ build = PART_000
  /\ nose' = unchecked(NOSE_ITEMS)
  /\ onChange(nose', snot, date, timepoint)
  /\ last' = Ran("resetNose", "ok")
  /\ UNCHANGED << config, snot, meta, clipboard, href, notice, pending >>

\* resetSnotBtn click: resetRadiosByPrefix("snot_", SNOT_ITEMS.length); onChange()
ResetSnot ==
  /\ Tick
  /\ build = PART_000
  /\ snot' = unchecked(SNOT_ITEMS)
  /\ onChange(nose, snot', date, timepoint)
  /\ last' = Ran("resetSnot", "ok")
  /\ UNCHANGED << config, nose, meta, clipboard, href, notice, pending >>

\* resetBtn click leaving the date field as it is
Reset_keepsDate ==
  /\ Tick
  /\ nose' = unchecked(NOSE_ITEMS)
  /\ snot' = unchecked(SNOT_ITEMS)
  /\ timepoint' = << "Pre-op" >>
  /\ date' = date
  /\ block' = (IF page = "clinician" THEN "baseline" ELSE block)
  /\ onChange(nose', snot', date', timepoint')
  /\ last' = Ran("reset", "ok")
  /\ UNCHANGED << config, clipboard, href, notice, pending >>

\* resetBtn click: resetAllRadios() and the top selectors, then onChange()
Reset ==
  /\ Tick
  /\ nose' = unchecked(NOSE_ITEMS)
  /\ snot' = unchecked(SNOT_ITEMS)
  /\ timepoint' = << "Pre-op" >>
  /\ date' = (IF build = PART_001
              THEN (IF page = "clinician" THEN EMPTY ELSE date)
              ELSE todayIso)
  /\ block' = (IF page = "clinician" THEN "baseline" ELSE block)
  /\ onChange(nose', snot', date', timepoint')
  /\ last' = Ran("reset", "ok")
  /\ UNCHANGED << config, clipboard, href, notice, pending >>

(***************************************************************************)
(* Output actions.  copyToClipboard(text) awaits navigator.clipboard       *)
(* .writeText(text): the write is pending until its promise settles, and   *)
(* other events run in between.  A rejected write, or one that throws at   *)
(* the call (no clipboard API), takes the fallback through #preview.       *)
(***************************************************************************)
\* the alert a copy handler shows after await copyToClipboard(...)
copiedAlert(p) ==
  IF p.op = "copySheet"
  THEN (IF build = PART_001
        THEN << "Copied TSV. Paste into the first PROM cell of the ",
                (IF block = "followup" THEN "FOLLOW-UP" ELSE "BASELINE"), " block." >>
        ELSE IF p.mode = "full"
        THEN << "Copied FULL TSV. Paste into the first cell of the correct PROM block (baseline or follow-up)." >>
        ELSE IF p.mode = "nose"
        THEN << "Copied NOSE TSV only. Paste into the first NOSE cell of the correct block (won(U+2019)t affect SNOT-22 cells)." >>
        ELSE << "Copied SNOT-22 TSV only. Paste into the first SNOT-22 cell of the correct block (won(U+2019)t affect NOSE cells)." >>)
  ELSE IF p.op = "copyEpr" THEN << "Copied EPR text." >>
  ELSE << "Copied results text." >>

\* the catch branch of copyToClipboard: ta.value = text; ta.select();
\* document.execCommand("copy"), which may copy nothing
fallbackCopy(text, from) ==
  IF ~hasPreview THEN preview' = from /\ clipboard' = clipboard
  ELSE /\ preview' = text
       /\ \E copied \in BOOLEAN : clipboard' = IF copied THEN text ELSE clipboard

\* a copy handler from `if (preview) preview.value = text` to its alert
copyToClipboard(p) ==
  LET shown == IF hasPreview THEN p.text ELSE preview
  IN  \/ /\ Len(pending) < MaxPending
         /\ pending' = Append(pending, p)
         /\ preview' = shown
         /\ UNCHANGED << clipboard, notice >>
      \/ /\ fallbackCopy(p.text, shown)
         /\ notice' = copiedAlert(p)
         /\ UNCHANGED pending

\* a failing handler that also shows the message in #preview, as onChange does
Fails_showsInPreview(op, msg) ==
  /\ notice' = msg
  /\ preview' = msg
  /\ last' = Ran(op, "error")
  /\ UNCHANGED << totals, clipboard, href, pending >>

\* a handler ends with alert(e.message) and return
Fails(op, msg) ==
  /\ notice' = msg
  /\ last' = Ran(op, "error")
  /\ UNCHANGED << totals, artifacts >>

\* copySheetBtn click
CopySheet ==
  /\ Tick
  /\ page = "clinician"
  /\ UNCHANGED << config, answers, meta, href >>
  /\ IF build = PART_001
     THEN /\ copyToClipboard([op |-> "copySheet", mode |-> "full",
                              text |-> buildBlockTSV(getScores(build, nose),
                                                     getScores(build, snot))])
          /\ last' = Ran("copySheet", "ok")
          /\ UNCHANGED totals
     ELSE LET result == buildSmartTSV(getScores(build, nose), getScores(build, snot))
          IN  IF result.threw THEN Fails("copySheet", result.message)
              ELSE /\ copyToClipboard([op |-> "copySheet", mode |-> result.mode,
                                       text |-> result.tsv])
                   /\ last' = Ran("copySheet", "ok")
                   /\ UNCHANGED totals

\* the copyEpr handler validating NOSE only
eprResult_noseOnlyChecked(b, d, tp, bl, noseScores, snotScores) ==
  LET n == assertNotPartialOrThrow("NOSE", noseScores)
      blockLabel == IF bl = "followup" THEN << "Follow-up" >> ELSE << "Baseline" >>
      snotState == completionState(snotScores)
  IN  IF n.threw THEN [threw |-> TRUE, message |-> n.message, txt |-> EMPTY]
      ELSE IF n.st = "empty" /\ snotState = "empty"
      THEN [threw |-> TRUE, txt |-> EMPTY, message |->
              << "Please complete NOSE and/or SNOT-22 before copying EPR text." >>]
      ELSE LET noseNums == IF n.st = "complete" THEN scoresToNumbers(noseScores)
                           ELSE nullNums
               snotNums == IF snotState = "complete" THEN scoresToNumbers(snotScores)
                           ELSE nullNums
           IN  [threw |-> FALSE, message |-> EMPTY,
                txt |-> buildEprText(b, d, tp, blockLabel, noseNums, snotNums)]

\* copyEprBtn click: the text it copies, or the message it alerts
eprResult(b, d, tp, bl, noseScores, snotScores) ==
  IF b = PART_001
  THEN [threw |-> FALSE, message |-> EMPTY,
        txt |-> buildEprText_001(d, tp, noseScores, snotScores)]
  ELSE LET n == assertNotPartialOrThrow("NOSE", noseScores)
           s == assertNotPartialOrThrow("SNOT-22", snotScores)
           blockLabel == IF bl = "followup" THEN << "Follow-up" >> ELSE << "Baseline" >>
       IN  IF n.threw THEN [threw |-> TRUE, message |-> n.message, txt |-> EMPTY]
           ELSE IF s.threw THEN [threw |-> TRUE, message |-> s.message, txt |-> EMPTY]
           ELSE IF n.st = "empty" /\ s.st = "empty"
           THEN [threw |-> TRUE, txt |-> EMPTY, message |->
                   << "Please complete NOSE and/or SNOT-22 before copying EPR text." >>]
           ELSE LET noseNums == IF n.st = "complete" THEN scoresToNumbers(noseScores)
                                ELSE nullNums
                    snotNums == IF s.st = "complete" THEN scoresToNumbers(snotScores)
                                ELSE nullNums
                IN  [threw |-> FALSE, message |-> EMPTY,
                     txt |-> buildEprText(b, d, tp, blockLabel, noseNums, snotNums)]

\* copyEprBtn click
CopyEpr ==
  /\ Tick
  /\ page = "clinician"
  /\ UNCHANGED << config, answers, meta, href >>
  /\ LET r == eprResult(build, date, timepoint, block,
                        getScores(build, nose), getScores(build, snot))
     IN  IF r.threw THEN Fails("copyEpr", r.message)
         ELSE /\ copyToClipboard([op |-> "copyEpr", mode |-> "none", text |-> r.txt])
              /\ last' = Ran("copyEpr", "ok")
              /\ UNCHANGED totals

\* the message the patient handlers build
patientMessage ==
  IF build = PART_001
  THEN buildEmail(includeTsvLine, date, timepoint,
                  getScores(build, nose), getScores(build, snot))
  ELSE buildPatientMessageOrThrow(build, includeTsvLine, date, timepoint,
                                  getScores(build, nose), getScores(build, snot))

\* the mailto link of the email handler
mailtoOf(msg) ==
  << "mailto:" >> \o encodeURIComponent(emailTo)
  \o << "?subject=" >> \o encodeURIComponent(msg.subject)
  \o << "&body=" >> \o encodeURIComponent(msg.body)

\* emailBtn click
EmailResults ==
  /\ Tick
  /\ page = "patient"
  /\ UNCHANGED << config, answers, meta >>
  /\ LET msg == patientMessage
     IN  IF msg.threw THEN Fails("emailResults", msg.message)
         ELSE /\ href' = mailtoOf(msg)
              /\ last' = Ran("emailResults", "ok")
              /\ UNCHANGED << totals, preview, clipboard, notice, pending >>

\* copyBtn click (copyPatientText)
CopyPatientText ==
  /\ Tick
  /\ page = "patient"
  /\ UNCHANGED << config, answers, meta, href >>
  /\ LET msg == patientMessage
     IN  IF msg.threw THEN Fails("copyPatientText", msg.message)
         ELSE /\ copyToClipboard([op |-> "copyPatientText", mode |-> "none",
                                  text |-> msg.body])
              /\ last' = Ran("copyPatientText", "ok")
              /\ UNCHANGED totals

\* pending without its i-th write
without(i) == SubSeq(pending, 1, i - 1) \o SubSeq(pending, i + 1, Len(pending))

\* navigator.clipboard.writeText resolves: the handler resumes at its alert
ClipboardResolve ==
  \E i \in 1..Len(pending) :
    /\ clipboard' = pending[i].text
    /\ notice' = copiedAlert(pending[i])
    /\ pending' = without(i)
    /\ last' = Ran("clipboardResolve", "ok")
    /\ UNCHANGED << config, answers, meta, totals, preview, href, steps >>

\* navigator.clipboard.writeText rejects: the fallback runs, then the alert
ClipboardReject ==
  \E i \in 1..Len(pending) :
    /\ fallbackCopy(pending[i].text, preview)
    /\ notice' = copiedAlert(pending[i])
    /\ pending' = without(i)
    /\ last' = Ran("clipboardReject", "ok")
    /\ UNCHANGED << config, answers, meta, totals, href, steps >>

Next ==
  \/ AnswerNose
  \/ AnswerSnot
  \/ SetDate
  \/ SetTimepoint
  \/ SetBlock
  \/ ResetNose
  \/ ResetSnot
  \/ Reset
  \/ CopySheet
  \/ CopyEpr
  \/ EmailResults
  \/ CopyPatientText
  \/ ClipboardResolve
  \/ ClipboardReject

\* the pages of part_000 and app.js
Spec == Init /\ [][Next]_vars

\* the pages of all three source files
SpecAll == InitAll /\ [][Next]_vars

(***************************************************************************)
(* The pages of part_000 with or without the #preview text area, which the *)
(* copy handlers and the clipboard fallback look up before they use it.    *)
(***************************************************************************)
InitDom ==
  /\ build = PART_000
  /\ page \in { "clinician", "patient" }
  /\ includeTsvLine = TRUE
  /\ hasPreview \in BOOLEAN
  /\ nose \in StartAnswers(NOSE_ITEMS, NOSE_MAX)
  /\ snot \in StartAnswers(SNOT_ITEMS, SNOT_MAX)
  /\ date = todayIso
  /\ timepoint = << "Pre-op" >>
  /\ block = "baseline"
  /\ noseTotal = totalText(build, nose)
  /\ snotTotal = totalText(build, snot)
  /\ preview = (IF hasPreview
                THEN previewOf(build, page, includeTsvLine, nose, snot, date, timepoint)
                ELSE EMPTY)
  /\ clipboard = EMPTY
  /\ href = EMPTY
  /\ notice = EMPTY
  /\ pending = << >>
  /\ steps = 0
  /\ last = [op |-> "mount", outcome |-> "ok",
             noseState |-> completionState(nose), snotState |-> completionState(snot)]

SpecDom == InitDom /\ [][Next]_vars

(***************************************************************************)

(* The clinician page started from a wider set of answers, with the radio  *)
(* and reset handlers only: the specification of the claims about scoring, *)
(* validation and the TSV rows as functions of the answers.                *)
(***************************************************************************)
\* every NOSE answer set over unanswered, lowest and highest radio, and the ramp
WideNose ==
  [1..Len(NOSE_ITEMS) -> { null, 0, NOSE_MAX }] \cup { ramp(NOSE_ITEMS, NOSE_MAX) }

\* SNOT-22 answer sets: none, all, all but the first or last, only the first or last
WideSnot ==
  { unchecked(SNOT_ITEMS), ramp(SNOT_ITEMS, SNOT_MAX) }
  \cup { [ramp(SNOT_ITEMS, SNOT_MAX) EXCEPT ![k] = null] : k \in { 1, Len(SNOT_ITEMS) } }
  \cup { [unchecked(SNOT_ITEMS) EXCEPT ![k] = SNOT_MAX] : k \in { 1, Len(SNOT_ITEMS) } }

InitAnswers ==
  /\ build \in { PART_000, APP_JS }
  /\ page = "clinician"
  /\ includeTsvLine = TRUE
  /\ hasPreview = TRUE
  /\ nose \in WideNose
  /\ snot \in WideSnot
  /\ date = todayIso
  /\ timepoint = << "Pre-op" >>
  /\ block = "baseline"
  /\ noseTotal = totalText(build, nose)
  /\ snotTotal = totalText(build, snot)
  /\ preview = previewOf(build, page, includeTsvLine, nose, snot, date, timepoint)
  /\ clipboard = EMPTY
  /\ href = EMPTY
  /\ notice = EMPTY
  /\ pending = << >>
  /\ steps = 0
  /\ last = [op |-> "mount", outcome |-> "ok",
             noseState |-> completionState(nose), snotState |-> completionState(snot)]

NextAnswers ==
  \/ AnswerNose
  \/ AnswerSnot
  \/ ResetNose
  \/ ResetSnot
  \/ Reset

SpecAnswers == InitAnswers /\ [][NextAnswers]_vars

(***************************************************************************)
(* Vocabulary of the claims, stated on the radios and the texts without    *)
(* the program's own classification.                                       *)
(***************************************************************************)
AllAnswered(radios) == \A i \in 1..Len(radios) : radios[i] # null
NoneAnswered(radios) == \A i \in 1..Len(radios) : radios[i] = null
PartlyAnswered(radios) == ~AllAnswered(radios) /\ ~NoneAnswered(radios)

OutputOps == { "copySheet", "copyEpr", "emailResults", "copyPatientText" }

\* the step is one of the four output actions
OutputStep == steps' = steps + 1 /\ last'.op \in OutputOps

PartlyMessage(label) ==
  << label, " is partly completed. Please answer all questions in ", label,
     ", or clear it and leave it blank." >>

BothEmptyMessage(op) ==
  IF op = "copySheet" THEN << "Please complete NOSE and/or SNOT-22 before copying." >>
  ELSE IF op = "copyEpr"
  THEN << "Please complete NOSE and/or SNOT-22 before copying EPR text." >>
  ELSE << "Please complete NOSE and/or SNOT-22 before emailing results." >>

ValidationMessages ==
  { PartlyMessage("NOSE"), PartlyMessage("SNOT-22") }
  \cup { BothEmptyMessage(op) : op \in OutputOps }

\* the fields of a TSV row as numbers' numerals
Numeral(n) == << ToString(n) >>

RECURSIVE TotalOf(_, _)
\* the sum of the first n slots
TotalOf(radios, n) == IF n = 0 THEN 0 ELSE radios[n] + TotalOf(radios, n - 1)

\* the fields of the row: the item values in item order, then their total
RowFields(radios) ==
  [i \in 1..(Len(radios) + 1) |->
     IF i <= Len(radios) THEN Numeral(radios[i])
     ELSE Numeral(TotalOf(radios, Len(radios)))]

\* C1: while NOSE or SNOT-22 is partly answered, an output action writes
\* nothing to the preview, the clipboard or the mail link, starts no clipboard
\* write, and ends with a validation error as its notice.
C1_PartialFailsClosed ==
  [][ (OutputStep /\ (PartlyAnswered(nose) \/ PartlyAnswered(snot)))
      => /\ preview' = preview
         /\ clipboard' = clipboard
         /\ href' = href
         /\ pending' = pending
         /\ last'.outcome = "error"
         /\ notice' \in { PartlyMessage("NOSE"), PartlyMessage("SNOT-22") } ]_vars

\* an output action was refused on a partly answered questionnaire after an
\* earlier copy had filled the clipboard
C1_Witness ==
  /\ last.op \in OutputOps
  /\ last.outcome = "error"
  /\ PartlyAnswered(nose) \/ PartlyAnswered(snot)
  /\ clipboard # EMPTY

\* C2: completionState is complete iff every slot is answered, empty iff no
\* slot is answered, partial otherwise, and always one of the three.
C2_Classify ==
  \A radios \in { nose, snot } :
    /\ completionState(radios) \in { "empty", "partial", "complete" }
    /\ completionState(radios) = "complete" <=> AllAnswered(radios)
    /\ completionState(radios) = "empty" <=> NoneAnswered(radios)
    /\ completionState(radios) = "partial" <=> PartlyAnswered(radios)

\* both a nearly complete and a nearly empty questionnaire were classified
C2_Witness ==
  /\ PartlyAnswered(nose)
  /\ PartlyAnswered(snot)
  /\ Cardinality({ i \in 1..Len(nose) : nose[i] = null }) = 1
  /\ Cardinality({ i \in 1..Len(snot) : snot[i] # null }) = 1
  /\ preview = PartlyMessage("NOSE")

\* C3: assertNotPartialOrThrow throws the partly-completed message with the
\* label on a partial answer set, and returns the classification (empty or
\* complete) on any other.
C3_AssertUsable ==
  \A q \in { << "NOSE", nose >>, << "SNOT-22", snot >> } :
    LET r == assertNotPartialOrThrow(q[1], q[2])
    IN  /\ PartlyAnswered(q[2]) => r.threw /\ r.message = PartlyMessage(q[1])
        /\ NoneAnswered(q[2]) => ~r.threw /\ r.st = "empty"
        /\ AllAnswered(q[2]) => ~r.threw /\ r.st = "complete"

\* SNOT-22 partly answered next to a complete NOSE: the preview shows the
\* message assertNotPartialOrThrow threw for SNOT-22
C3_Witness ==
  /\ AllAnswered(nose)
  /\ PartlyAnswered(snot)
  /\ preview = PartlyMessage("SNOT-22")

\* C4: on answer sets that are each empty or complete, buildSmartTSV follows
\* the decision table: both complete full, only NOSE complete nose, only
\* SNOT-22 complete snot, both empty an error; the score arrays are non-null
\* exactly for the complete questionnaires.
C4_ModeTable ==
  (~PartlyAnswered(nose) /\ ~PartlyAnswered(snot)) =>
    LET r == buildSmartTSV(nose, snot)
    IN  /\ r.threw <=> (NoneAnswered(nose) /\ NoneAnswered(snot))
        /\ r.threw => r.message = BothEmptyMessage("copySheet")
        /\ (AllAnswered(nose) /\ AllAnswered(snot)) => r.mode = "full"
        /\ (AllAnswered(nose) /\ NoneAnswered(snot)) => r.mode = "nose"
        /\ (NoneAnswered(nose) /\ AllAnswered(snot)) => r.mode = "snot"
        /\ r.noseNums # nullNums <=> AllAnswered(nose)
        /\ r.snotNums # nullNums <=> AllAnswered(snot)
        /\ AllAnswered(nose) => r.noseNums = nose
        /\ AllAnswered(snot) => r.snotNums = snot

\* only NOSE is complete and the preview shows the row of the nose mode
C4_Witness ==
  /\ AllAnswered(nose)
  /\ NoneAnswered(snot)
  /\ last.op = "resetSnot"
  /\ preview = buildSmartTSV(nose, snot).tsv
  /\ buildSmartTSV(nose, snot).mode = "nose"

\* the lines of a text
LinesOf(text) == split(text, NL)

\* number of item lines "- <label>: <value>" of a text
ItemLineCount(text) ==
  LET lines == LinesOf(text)
  IN  Cardinality({ i \in 1..Len(lines) : lines[i] # EMPTY /\ lines[i][1] = "- " })

\* the text has a line that starts with the token
HasLine(text, token) ==
  LET lines == LinesOf(text)
  IN  \E i \in 1..Len(lines) : lines[i] # EMPTY /\ lines[i][1] = token

\* the text has a NOSE total line
HasNoseBlock(text) == HasLine(text, "NOSE raw total: ") \/ HasLine(text, "NOSE total: ")

\* the text has a SNOT-22 total line
HasSnotBlock(text) == HasLine(text, "SNOT-22 total: ")

\* the lines of the text that are TSV rows
RowLines(text) ==
  LET lines == LinesOf(text)
  IN  { lines[i] : i \in { j \in 1..Len(lines) :
                             \E k \in 1..Len(lines[j]) : lines[j][k] = TAB } }

\* columns and item lines the completed questionnaires account for
ColumnsDue ==
  (IF AllAnswered(nose) THEN Len(NOSE_ITEMS) + 1 ELSE 0)
  + (IF AllAnswered(snot) THEN Len(SNOT_ITEMS) + 1 ELSE 0)

ItemLinesDue ==
  (IF AllAnswered(nose) THEN Len(NOSE_ITEMS) ELSE 0)
  + (IF AllAnswered(snot) THEN Len(SNOT_ITEMS) ELSE 0)

\* C5: the text a copy action has just produced shows nothing for a
\* questionnaire that was not completed: a TSV row has columns only for the
\* completed questionnaires, and a narrative has a total line and item lines
\* only for them.
C5_NoFabricatedValues ==
  (last.op \in { "copySheet", "copyEpr", "copyPatientText" } /\ last.outcome = "ok") =>
    /\ \A row \in RowLines(preview) : Len(split(row, TAB)) = ColumnsDue
    /\ last.op = "copySheet" => RowLines(preview) # { }
    /\ last.op # "copySheet" =>
         /\ ItemLineCount(preview) = ItemLinesDue
         /\ HasNoseBlock(preview) <=> AllAnswered(nose)
         /\ HasSnotBlock(preview) <=> AllAnswered(snot)

\* C6: the full-mode row of two complete answer sets has 29 fields: the NOSE
\* values in item order, their sum, the SNOT-22 values in item order, their sum.
C6_FullRow ==
  (AllAnswered(nose) /\ AllAnswered(snot)) =>
    LET fields == split(buildSmartTSV(nose, snot).tsv, TAB)
    IN  /\ Len(fields) = 29
        /\ SubSeq(fields, 1, 6) = RowFields(nose)
        /\ SubSeq(fields, 7, 29) = RowFields(snot)

\* both questionnaires complete, NOSE not all alike, and the preview shows
\* the 29-field row
C6_Witness ==
  /\ AllAnswered(nose)
  /\ AllAnswered(snot)
  /\ nose[1] # nose[2]
  /\ Len(split(preview, TAB)) = 29
  /\ preview = buildFullBlockTSV(nose, snot)

\* a row of single numerals separated by single tabs: no tab at either end,
\* no empty field, no newline
PlainRow(row) ==
  /\ row # EMPTY
  /\ row[1] # TAB /\ row[Len(row)] # TAB
  /\ \A i \in 1..Len(row) : row[i] # NL
  /\ LET fields == split(row, TAB)
     IN  \A i \in 1..Len(fields) : Len(fields[i]) = 1

\* C7: the row of a single complete questionnaire is its item values in item
\* order followed by their total, 6 fields for NOSE and 23 for SNOT-22,
\* separated by single tabs with no tab at either end, no empty field and no
\* newline.
C7_SingleRows ==
  /\ (AllAnswered(nose) /\ NoneAnswered(snot)) =>
       LET row == buildSmartTSV(nose, snot).tsv
       IN  /\ PlainRow(row)
           /\ Len(split(row, TAB)) = 6
           /\ split(row, TAB) = RowFields(nose)
  /\ (NoneAnswered(nose) /\ AllAnswered(snot)) =>
       LET row == buildSmartTSV(nose, snot).tsv
       IN  /\ PlainRow(row)
           /\ Len(split(row, TAB)) = 23
           /\ split(row, TAB) = RowFields(snot)

\* only SNOT-22 is complete and the preview shows its 23-field row
C7_Witness ==
  /\ NoneAnswered(nose)
  /\ AllAnswered(snot)
  /\ last.op = "resetNose"
  /\ Len(split(preview, TAB)) = 23
  /\ preview = buildSnotOnlyTSV(snot)

\* C8 as stated: any output requested while both questionnaires are empty
\* fails with the message "Please complete NOSE and/or SNOT-22 before copying."
C8_SameMessage ==
  (last.op \in OutputOps /\ NoneAnswered(nose) /\ NoneAnswered(snot)) =>
    /\ last.outcome = "error"
    /\ notice = << "Please complete NOSE and/or SNOT-22 before copying." >>

\* C8 amended: any output requested while both questionnaires are empty fails
\* with a validation error; the message ends "before copying." for the TSV
\* copy, "before copying EPR text." for the EPR copy and "before emailing
\* results." for the patient email and the patient text copy.
C8_BothEmptyFails ==
  (last.op \in OutputOps /\ NoneAnswered(nose) /\ NoneAnswered(snot)) =>
    /\ last.outcome = "error"
    /\ notice = BothEmptyMessage(last.op)
    /\ notice \in
         { << "Please complete NOSE and/or SNOT-22 before copying." >>,
           << "Please complete NOSE and/or SNOT-22 before copying EPR text." >>,
           << "Please complete NOSE and/or SNOT-22 before emailing results." >> }

\* the patient text copy was refused with both questionnaires empty
C8_Witness ==
  /\ last.op = "copyPatientText"
  /\ NoneAnswered(nose)
  /\ NoneAnswered(snot)
  /\ last.outcome = "error"
  /\ notice = << "Please complete NOSE and/or SNOT-22 before emailing results." >>

\* one questionnaire is complete and the other is complete or empty
Usable ==
  /\ ~PartlyAnswered(nose) /\ ~PartlyAnswered(snot)
  /\ AllAnswered(nose) \/ AllAnswered(snot)

\* the artifact of the output action that has just run
Produced ==
  IF last.op = "emailResults"
  THEN /\ href # EMPTY /\ href[1] = "mailto:"
       /\ \E i \in 1..Len(href) : href[i] = "enc(PROMs recorded:)"
  ELSE /\ preview \notin ValidationMessages
       /\ IF last.op = "copySheet" THEN Len(split(preview, TAB)) = ColumnsDue
          ELSE preview # EMPTY /\ preview[1] = "PROMs recorded:"
       /\ \/ clipboard = preview
          \/ \E i \in 1..Len(pending) : pending[i].text = preview
          \/ notice[1] \in { "Copied EPR text.", "Copied results text." }
          \/ last.op = "copySheet" /\ notice \notin ValidationMessages /\ notice # EMPTY

\* C9: an output action fails only when a questionnaire is partly answered or
\* both are empty; when one is complete and the other complete or empty it
\* succeeds and produces its artifact, whatever the date, timepoint and
\* dataset are.
C9_OnlyValidationFails ==
  last.op \in OutputOps =>
    /\ last.outcome = "error" =>
         \/ PartlyAnswered(nose) \/ PartlyAnswered(snot)
         \/ NoneAnswered(nose) /\ NoneAnswered(snot)
    /\ Usable => last.outcome = "ok" /\ Produced

\* an output action succeeded with only SNOT-22 complete and neither a date
\* nor a timepoint
C9_Witness ==
  /\ last.op \in OutputOps
  /\ last.outcome = "ok"
  /\ NoneAnswered(nose)
  /\ AllAnswered(snot)
  /\ date = EMPTY
  /\ timepoint = EMPTY

\* C10: an output action that fails validation leaves the preview, the
\* clipboard, the mail link and the pending clipboard writes as they were; it
\* only shows the error message as a notice.
C10_FailureWritesNothing ==
  [][ (OutputStep /\ last'.outcome = "error")
      => /\ preview' = preview
         /\ clipboard' = clipboard
         /\ href' = href
         /\ pending' = pending
         /\ notice' \in ValidationMessages ]_vars

\* an output action failed on two empty questionnaires while the clipboard
\* held an earlier copy and the preview did not show the error message
C10_Witness ==
  /\ last.op \in OutputOps
  /\ last.outcome = "error"
  /\ NoneAnswered(nose) /\ NoneAnswered(snot)
  /\ clipboard # EMPTY
  /\ notice \in ValidationMessages
  /\ preview # notice

\* a copy action has just put a narrative in the preview
NarrativeShown ==
  /\ last.op \in { "copyEpr", "copyPatientText" }
  /\ last.outcome = "ok"

\* the item lines of a questionnaire follow line k of the lines
ItemLinesAfter(lines, k, items, radios) ==
  /\ k + Len(items) <= Len(lines)
  /\ \A i \in 1..Len(items) :
       lines[k + i] = << "- ", items[i], ": ", ToString(radios[i]) >>

\* C11: in the narrative the NOSE block is the line "NOSE raw total: <raw> /
\* 20", the line "NOSE score (0(U+2013)100): <raw * 5> / 100" and one line
\* "- <label>: <value>" per NOSE item in item order; the SNOT-22 block is the
\* line "SNOT-22 total: <raw> / 110" and its item lines, with no score line.
C11_NarrativeBlocks ==
  NarrativeShown =>
    LET lines == LinesOf(preview)
        noseRaw == TotalOf(nose, Len(nose))
        snotRaw == TotalOf(snot, Len(snot))
    IN  /\ AllAnswered(nose) =>
             \E k \in 1..Len(lines) :
               /\ lines[k] = << "NOSE raw total: ", ToString(noseRaw), " / 20" >>
               /\ k + 1 <= Len(lines)
               /\ lines[k + 1] = << "NOSE score (0(U+2013)100): ",
                                    ToString(noseRaw * 5), " / 100" >>
               /\ ItemLinesAfter(lines, k + 1, NOSE_ITEMS, nose)
        /\ AllAnswered(snot) =>
             \E k \in 1..Len(lines) :
               /\ lines[k] = << "SNOT-22 total: ", ToString(snotRaw), " / 110" >>
               /\ ItemLinesAfter(lines, k, SNOT_ITEMS, snot)
        /\ \A k \in 1..Len(lines) :
             lines[k] # EMPTY => lines[k][1] # "SNOT-22 score (0(U+2013)100): "


\* the decimal numerals of lo..hi
NumeralsOf(lo, hi) == { ToString(k) : k \in lo..hi }

\* C12: for a completed questionnaire the narrative's raw total lies in
\* 0..20 (NOSE) or 0..110 (SNOT-22) and the NOSE scaled score, five times
\* the raw total, lies in 0..100; all NOSE answers 0 give 0 and 0, all
\* NOSE answers 4 give 20 and 100.
C12_TotalsInRange ==
  /\ AllAnswered(nose) =>
       LET blk == noseBlock(PART_000, scoresToNumbers(getScores(build, nose)))
           raw == TotalOf(nose, Len(nose))
       IN  /\ blk[1][2] \in NumeralsOf(0, NOSE_MAX * Len(NOSE_ITEMS))
           /\ blk[2][2] \in NumeralsOf(0, 100)
           /\ blk[1] = << "NOSE raw total: ", ToString(raw), " / 20" >>
           /\ blk[2] = << "NOSE score (0(U+2013)100): ", ToString(5 * raw), " / 100" >>
           /\ (\A i \in 1..Len(nose) : nose[i] = 0) =>
                blk[1][2] = "0" /\ blk[2][2] = "0"
           /\ (\A i \in 1..Len(nose) : nose[i] = NOSE_MAX) =>
                blk[1][2] = "20" /\ blk[2][2] = "100"
  /\ AllAnswered(snot) =>
       LET blk == snotBlock(scoresToNumbers(getScores(build, snot)))
       IN  /\ blk[1][2] \in NumeralsOf(0, SNOT_MAX * Len(SNOT_ITEMS))
           /\ blk[1][3] = " / 110"

\* every NOSE item was answered 4 after a click, SNOT-22 is complete
C12_Witness ==
  /\ last.op = "answer"
  /\ \A i \in 1..Len(nose) : nose[i] = NOSE_MAX
  /\ AllAnswered(snot)


\* the date 2024-03-05 as the narrative and the subject show it
ShownDate == << "05", "/", "03", "/", "2024" >>

\* the dataset label the clinician page passes to buildEprText; the patient
\* page passes none
ShownDataset ==
  IF page = "patient" THEN EMPTY
  ELSE IF block = "baseline" THEN << "Baseline" >> ELSE << "Follow-up" >>

\* the metadata fields due: the non-empty ones, in the order Date,
\* Timepoint, Dataset
MetaDue ==
  (IF date # EMPTY THEN << << "Date: " >> \o ShownDate >> ELSE << >>)
  \o (IF timepoint # EMPTY THEN << << "Timepoint: " >> \o timepoint >> ELSE << >>)
  \o (IF ShownDataset # EMPTY THEN << << "Dataset: " >> \o ShownDataset >> ELSE << >>)

\* fields written one after the other with " | " between them
Piped(fields) ==
  IF Len(fields) = 1 THEN fields[1]
  ELSE IF Len(fields) = 2 THEN fields[1] \o << " | " >> \o fields[2]
  ELSE fields[1] \o << " | " >> \o fields[2] \o << " | " >> \o fields[3]

\* C13: a narrative starts with the line "PROMs recorded:".  A metadata
\* line follows exactly when the date, the timepoint or the dataset label
\* is non-empty; it holds the non-empty fields only, in the order Date
\* (as DD/MM/YYYY), Timepoint, Dataset, joined by " | ".  Without any
\* field the header is followed by the separating blank line at once.
C13_NarrativeHeader ==
  NarrativeShown =>
    LET lines == LinesOf(preview)
    IN  /\ Len(lines) >= 3
        /\ lines[1] = << "PROMs recorded:" >>
        /\ IF Len(MetaDue) = 0
           THEN lines[2] = EMPTY /\ lines[3] # EMPTY
           ELSE lines[2] = Piped(MetaDue) /\ lines[3] = EMPTY

\* a clinician narrative with all three fields
C13_Witness ==
  /\ NarrativeShown
  /\ build = PART_000
  /\ last.op = "copyEpr"
  /\ date # EMPTY /\ timepoint # EMPTY
  /\ LinesOf(preview)[2] = Piped(MetaDue)

\* a patient narrative without a metadata line
C13_WitnessNoMeta ==
  /\ NarrativeShown
  /\ build = PART_000
  /\ date = EMPTY /\ timepoint = EMPTY
  /\ LinesOf(preview)[2] = EMPTY


\* the subject due: the fixed text, then the date and the timepoint that
\* are present, each after " (U+2013) "
SubjectDue ==
  << "NASALPROM PROMs" >>
  \o (IF date # EMPTY THEN << " (U+2013) " >> \o ShownDate ELSE << >>)
  \o (IF timepoint # EMPTY THEN << " (U+2013) " >> \o timepoint ELSE << >>)

\* the part of a mailto link between "?subject=" and "&body="
SubjectField(link) ==
  LET from == CHOOSE i \in 1..Len(link) : link[i] = "?subject="
      to == CHOOSE i \in 1..Len(link) : link[i] = "&body="
  IN  SubSeq(link, from + 1, to - 1)

\* the email handler has just built a link
Mailed == last.op = "emailResults" /\ last.outcome = "ok"

\* C14: the subject of the patient email is "NASALPROM PROMs", then the
\* date as DD/MM/YYYY and the timepoint, joined by " (U+2013) "; an absent
\* date or timepoint is skipped.  With the date 2024-03-05 and the
\* timepoint Pre-op it reads
\* "NASALPROM PROMs (U+2013) 05/03/2024 (U+2013) Pre-op".
C14_Subject ==
  /\ subjectOf(date, timepoint) = SubjectDue
  /\ Mailed => SubjectField(href) = encodeURIComponent(SubjectDue)
  /\ (date = todayIso /\ timepoint = << "Pre-op" >>) =>
       subjectOf(date, timepoint) =
         << "NASALPROM PROMs", " (U+2013) ", "05", "/", "03", "/", "2024",
            " (U+2013) ", "Pre-op" >>

\* an email built with the date cleared and the timepoint kept
C14_Witness ==
  /\ Mailed
  /\ date = EMPTY
  /\ timepoint = << "Pre-op" >>
  /\ SubjectField(href) = encodeURIComponent(<< "NASALPROM PROMs", " (U+2013) ", "Pre-op" >>)


\* the numbers of a questionnaire when it is complete, else none
NumsDue(radios) == IF AllAnswered(radios) THEN radios ELSE nullNums

\* the TSV part due in the patient text: a blank line, the label line, the row
TsvPartDue ==
  IF AllAnswered(nose) /\ AllAnswered(snot)
  THEN << NL, NL, "FULL TSV:", NL >> \o buildFullBlockTSV(nose, snot)
  ELSE IF AllAnswered(nose)
  THEN << NL, NL, "NOSE TSV only:", NL >> \o buildNoseOnlyTSV(nose)
  ELSE << NL, NL, "SNOT-22 TSV only:", NL >> \o buildSnotOnlyTSV(snot)

\* C15: the patient text is the narrative; unless the include-TSV flag is
\* false there follow one blank line, the label line "FULL TSV:", "NOSE
\* TSV only:" or "SNOT-22 TSV only:" for the mode, and the TSV row; the
\* text ends with exactly one newline.
C15_PatientBody ==
  (last.op = "copyPatientText" /\ last.outcome = "ok" /\ hasPreview) =>
    preview = buildEprText(build, date, timepoint, EMPTY, NumsDue(nose), NumsDue(snot))
              \o (IF includeTsvLine THEN TsvPartDue ELSE << >>)
              \o << NL >>


CopyOps == { "copySheet", "copyEpr", "copyPatientText" }

\* a copy handler ran to its "Copied ..." alert within the click: the
\* clipboard interface was not available and the fallback was taken
CopiedAtOnce ==
  /\ steps' = steps + 1
  /\ last'.op \in CopyOps
  /\ last'.outcome = "ok"
  /\ pending' = pending

\* a clipboard write settled and its handler went on to its "Copied ..." alert
CopiedLater ==
  /\ last'.op \in { "clipboardResolve", "clipboardReject" }
  /\ Len(pending') < Len(pending)

\* C16: a copy action shows its "Copied ..." notice only when the text
\* has reached the clipboard, by the clipboard interface or by the
\* fallback; when copyToClipboard reports failure (no #preview to copy
\* from) no such notice is shown.
C16_CopiedOnlyOnSuccess ==
  [][ /\ CopiedAtOnce => hasPreview /\ clipboard' = preview'
      /\ CopiedLater =>
           \E i \in 1..Len(pending) :
             /\ pending' = without(i)
             /\ notice' = copiedAlert(pending[i])
             /\ clipboard' = pending[i].text ]_vars


\* C17: "reset NOSE" leaves every NOSE item unanswered and every SNOT-22
\* answer as it was, "reset SNOT-22" leaves every SNOT-22 item unanswered
\* and every NOSE answer as it was; neither changes the date, the
\* timepoint or the dataset selection.
C17_ResetOwnOnly ==
  [][ /\ (steps' = steps + 1 /\ last'.op = "resetNose") =>
           /\ NoneAnswered(nose')
           /\ snot' = snot
           /\ date' = date /\ timepoint' = timepoint /\ block' = block
      /\ (steps' = steps + 1 /\ last'.op = "resetSnot") =>
           /\ NoneAnswered(snot')
           /\ nose' = nose
           /\ date' = date /\ timepoint' = timepoint /\ block' = block ]_vars

\* "reset NOSE" ran on two complete questionnaires and SNOT-22 is still complete
C17_Witness ==
  /\ last.op = "resetNose"
  /\ last.noseState = "complete"
  /\ last.snotState = "complete"
  /\ NoneAnswered(nose)
  /\ AllAnswered(snot)


\* C18: when the date, the timepoint or the dataset block changes, the
\* preview is recomputed from the current answers and the new field
\* values, so that the patient preview shows no date or timepoint other
\* than the current ones.
C18_PreviewFollowsSelectors ==
  [][ (steps' = steps + 1 /\ last'.op \in { "setDate", "setTimepoint", "setBlock" }) =>
        preview' = previewOf(build, page, includeTsvLine, nose, snot, date', timepoint')
    ]_vars


\* an output action has just run
OutputRan == last.op \in OutputOps

\* C19: validation runs in a fixed order: a partly completed NOSE is
\* reported first, even when SNOT-22 is partly completed too; then a
\* partly completed SNOT-22; the both-empty failure comes last, so a
\* request with one questionnaire partly completed and the other empty
\* reports the partial-completion message, never the both-empty message.
C19_ValidationOrder ==
  OutputRan =>
    /\ last.noseState = "partial" =>
         last.outcome = "error" /\ notice = PartlyMessage("NOSE")
    /\ (last.noseState # "partial" /\ last.snotState = "partial") =>
         last.outcome = "error" /\ notice = PartlyMessage("SNOT-22")
    /\ (last.noseState = "partial" \/ last.snotState = "partial") =>
         notice # BothEmptyMessage(last.op)

\* a TSV copy was requested with both questionnaires partly completed
C19_Witness ==
  /\ last.op = "copySheet"
  /\ last.noseState = "partial"
  /\ last.snotState = "partial"
  /\ notice = PartlyMessage("NOSE")

\* an output was requested with SNOT-22 partly completed and NOSE empty
C19_WitnessOneEmpty ==
  /\ OutputRan
  /\ last.noseState = "empty"
  /\ last.snotState = "partial"
  /\ notice = PartlyMessage("SNOT-22")


\* what the preview shows for two empty questionnaires: the both-empty
\* failure of buildSmartTSV on the clinician page, the invitation to fill
\* in a questionnaire on the patient page
BothEmptyPreview ==
  IF page = "clinician"
  THEN << "Please complete NOSE and/or SNOT-22 before copying." >>
  ELSE << "Complete NOSE and/or SNOT-22, then tap Email results." >>

\* C20: after the full reset every item of both questionnaires is
\* unanswered, the timepoint is "Pre-op", the dataset block is baseline,
\* the date is today's date, both displayed totals are 0 and the preview
\* shows the both-empty message, no TSV row and no narrative.
C20_FullReset ==
  last.op = "reset" =>
    /\ NoneAnswered(nose)
    /\ NoneAnswered(snot)
    /\ timepoint = << "Pre-op" >>
    /\ block = "baseline"
    /\ date = todayIso
    /\ noseTotal = << "0" >>
    /\ snotTotal = << "0" >>
    /\ preview = BothEmptyPreview
    /\ ~HasLine(preview, "PROMs recorded:")
    /\ TAB \notin { preview[i] : i \in 1..Len(preview) }

\* the full reset ran on two complete questionnaires
C20_Witness ==
  /\ last.op = "reset"
  /\ last.noseState = "complete"
  /\ last.snotState = "complete"
  /\ NoneAnswered(nose)
  /\ preview = BothEmptyPreview


RECURSIVE AnsweredSum(_, _)
\* the sum of the answered ones among the first n slots
AnsweredSum(radios, n) ==
  IF n = 0 THEN 0
  ELSE (IF radios[n] = null THEN 0 ELSE radios[n]) + AnsweredSum(radios, n - 1)

\* the last tab-separated field of a row
LastField(row) == row[Len(row)]

\* C21: the displayed running total of each questionnaire is the sum of
\* its answered items, unanswered items adding nothing, also while the
\* questionnaire is partly completed; for a complete questionnaire it is
\* the raw total the TSV row and the narrative carry.
C21_RunningTotals ==
  /\ noseTotal = Numeral(AnsweredSum(nose, Len(nose)))
  /\ snotTotal = Numeral(AnsweredSum(snot, Len(snot)))
  /\ AllAnswered(nose) =>
       /\ noseTotal = << LastField(buildNoseOnlyTSV(scoresToNumbers(getScores(build, nose)))) >>
       /\ noseTotal = << noseBlock(build, scoresToNumbers(getScores(build, nose)))[1][2] >>
  /\ AllAnswered(snot) =>
       /\ snotTotal = << LastField(buildSnotOnlyTSV(scoresToNumbers(getScores(build, snot)))) >>
       /\ snotTotal = << snotBlock(scoresToNumbers(getScores(build, snot)))[1][2] >>

\* an answer was just given in a partly completed NOSE whose total shows 4
C21_Witness ==
  /\ last.op = "answer"
  /\ PartlyAnswered(nose)
  /\ noseTotal = << "4" >>
  /\ AllAnswered(snot)


\* the texts the handlers compute from the current answers and metadata:
\* what onChange shows, the narrative of the clinician page, the message
\* body of the patient page
CurrentTexts ==
  { previewOf(build, page, includeTsvLine, nose, snot, date, timepoint) }
  \cup (IF page = "clinician"
        THEN LET r == eprResult(build, date, timepoint, block,
                                getScores(build, nose), getScores(build, snot))
             IN  IF r.threw THEN { } ELSE { r.txt }
        ELSE IF patientMessage.threw THEN { } ELSE { patientMessage.body })

\* C22: whenever no handler is waiting for its clipboard write, the
\* preview shows a text computed from the current answers and metadata,
\* also after an answer was changed while a clipboard write was pending
\* and that write then fell back to the preview text area.
C22_PreviewCurrent ==
  (hasPreview /\ pending = << >>) => preview \in CurrentTexts


\* the slots of both questionnaires whose value differs across the step
ChangedSlots ==
  { << "nose", i >> : i \in { j \in 1..Len(nose) : nose'[j] # nose[j] } }
  \cup { << "snot", i >> : i \in { j \in 1..Len(snot) : snot'[j] # snot[j] } }

\* some answered item is unanswered after the step
Unanswers(radios, radiosAfter) ==
  \E i \in 1..Len(radios) : radios[i] # null /\ radiosAfter[i] = null

\* the number of answered items
AnsweredCount(radios) == Cardinality({ i \in 1..Len(radios) : radios[i] # null })

\* C23: recording a response changes exactly one slot of one
\* questionnaire and no other slot; an answered item becomes unanswered
\* only through a reset, so that without a reset the number of answered
\* items never decreases and a complete questionnaire stays complete.
C23_AnswersOnlyGrow ==
  [][ /\ (steps' = steps + 1 /\ last'.op = "answer") =>
           /\ Cardinality(ChangedSlots) = 1
           /\ \A s \in ChangedSlots :
                (IF s[1] = "nose" THEN nose'[s[2]] ELSE snot'[s[2]]) # null
      /\ Unanswers(nose, nose') =>
           steps' = steps + 1 /\ last'.op \in { "resetNose", "reset" }
      /\ Unanswers(snot, snot') =>
           steps' = steps + 1 /\ last'.op \in { "resetSnot", "reset" }
      /\ ~(steps' = steps + 1 /\ last'.op \in { "resetNose", "resetSnot", "reset" }) =>
           /\ AnsweredCount(nose') >= AnsweredCount(nose)
           /\ AnsweredCount(snot') >= AnsweredCount(snot)
           /\ AllAnswered(nose) => AllAnswered(nose')
           /\ AllAnswered(snot) => AllAnswered(snot') ]_vars

\* an answer of a complete NOSE was changed and NOSE is still complete
C23_Witness ==
  /\ last.op = "answer"
  /\ last.noseState = "complete"
  /\ AllAnswered(nose)
  /\ nose # ramp(NOSE_ITEMS, NOSE_MAX)


\* the label line of the TSV part for a mode of buildSmartTSV
LabelDue(b, mode) ==
  IF b = PART_000
  THEN (CASE mode = "full" -> << "FULL TSV:" >>
          [] mode = "nose" -> << "NOSE TSV only:" >>
          [] mode = "snot" -> << "SNOT-22 TSV only:" >>)
  ELSE (CASE mode = "full" -> << "FULL TSV (paste into first PROM cell of block):" >>
          [] mode = "nose" -> << "NOSE TSV only (paste into first NOSE cell of block):" >>
          [] mode = "snot" -> << "SNOT-22 TSV only (paste into first SNOT-22 cell of block):" >>)

\* C24: for answers that pass validation the patient message and the
\* clinician copy select the same TSV: the row in the message body is the
\* row buildSmartTSV returns, the label line above it is the one of
\* buildSmartTSV's mode, and the patient preview is the message body
\* without its final newline.
C24_SameTsvOnBothPaths ==
  LET noseScores == getScores(build, nose)
      snotScores == getScores(build, snot)
      msg == buildPatientMessageOrThrow(build, includeTsvLine, date, timepoint,
                                        noseScores, snotScores)
      smart == buildSmartTSV(noseScores, snotScores)
      body == msg.body
      tsvPart == << NL, NL >> \o LabelDue(build, smart.mode) \o << NL >>
                 \o smart.tsv \o << NL >>
      from == Len(body) - Len(tsvPart)
  IN  /\ msg.threw <=> smart.threw
      /\ ~msg.threw =>
           /\ patientPreview(build, includeTsvLine, nose, snot, date, timepoint) \o << NL >>
                = body
           /\ includeTsvLine =>
                /\ from >= 1
                /\ SubSeq(body, from + 1, Len(body)) = tsvPart
                /\ body[from] # NL
           /\ (page = "patient" /\ last.op \in { "mount", "answer", "reset",
                                                  "resetNose", "resetSnot" }) =>
                preview \o << NL >> = body
           /\ (page = "clinician" /\ last.op = "copySheet") =>
                preview = smart.tsv

\* the patient page shows the narrative and the SNOT-22-only row after an answer
C24_Witness ==
  /\ page = "patient"
  /\ includeTsvLine
  /\ last.op = "answer"
  /\ NoneAnswered(nose)
  /\ AllAnswered(snot)
  /\ SubSeq(preview, Len(preview) - Len(buildSnotOnlyTSV(snot)) + 1, Len(preview))
       = buildSnotOnlyTSV(snot)

=============================================================================
